---- MODULE Spec2Model ----
(***************************************************************************)
(* Verification model of the three FastAPI assignments:                    *)
(*   assignment2/main.py  weather proxy: sliding-window rate limiter and   *)
(*                        TTL cache (WeatherCache)                         *)
(*   assignment3/main.py  blog service: posts, comments, ownership         *)
(*   assignment1/main.py  user service: register, login, profile update    *)
(* Time is counted in whole seconds; time.time() is the variable now.      *)
(***************************************************************************)
EXTENDS Integers, Sequences, FiniteSets, TLC

VARIABLES
    now,               \* time.time()
    rate_limit_store,  \* assignment2: IP -> list of timestamps
    rl_log,            \* history: per IP, the <<instant, status>> of each request
    weather_cache,     \* assignment2: the WeatherCache object [store, hits, misses]
    last_call,         \* history: the latest WeatherCache method call and its result
    n_gets,            \* history: WeatherCache.get calls since the last clear
    resp,              \* history: the latest HTTP request of assignment2 and its response
    fetched,           \* history: cache keys whose upstream fetch has succeeded
    pc,                \* assignment2: where each request in flight stands
    local,             \* the local variables of each request in flight
    blog_db,           \* assignment3: the tables [users, posts, comments]
    blog_tokens,       \* assignment3: the subjects of the tokens issued by /token
    blog_resp,         \* history: the latest request of assignment3 and its response
    svc_users,         \* assignment1: the users table
    svc_tokens,        \* assignment1: the subjects of the tokens issued by /login
    svc_resp           \* history: the latest request of assignment1 and its response

rlVars == <<rate_limit_store, rl_log>>
cacheVars == <<weather_cache, last_call, n_gets>>
httpVars == <<resp, fetched>>
concVars == <<pc, local>>
weatherVars == <<now, rlVars, cacheVars, httpVars, concVars>>
blogVars == <<blog_db, blog_tokens, blog_resp>>
svcVars == <<svc_users, svc_tokens, svc_resp>>
vars == <<now, rate_limit_store, rl_log, weather_cache, last_call, n_gets,
          resp, fetched, pc, local, blog_db, blog_tokens, blog_resp,
          svc_users, svc_tokens, svc_resp>>

\* ---------------------------------------------------------------- constants
RATE_LIMIT_MAX_REQUESTS == 10
RATE_LIMIT_WINDOW == 60
CACHE_TTL_SECONDS == 600

HTTP_429_TOO_MANY_REQUESTS == 429

\* ---------------------------------------------------------------- bounds
\* requests of the client under study and of the other client in one behaviour
MaxRequests == 22
MaxOtherRequests == 1
\* WeatherCache method calls in one behaviour
MaxCalls == 5
\* HTTP requests to the weather service in one behaviour
MaxWeatherRequests == 4
\* requests the client has already been allowed when the behaviour starts
PriorRequests == 8
\* requests in flight at the same time, and the requests the client has
\* already been allowed when they arrive
NumTasks == 2
ConcPriorRequests == 9
\* the largest post id and comment id the blog hands out in one behaviour
MaxPostId == 1
MaxCommentId == 2

Clients == {"ip1", "ip2"}
\* the clock readings at which requests arrive: a second apart, a second short
\* of a full window apart, and a full window apart
RateInstants == {0, 1, RATE_LIMIT_WINDOW, RATE_LIMIT_WINDOW + 1}

\* ---------------------------------------------------------------- helpers
Min(a, b) == IF a <= b THEN a ELSE b
Range(s) == {s[i] : i \in 1..Len(s)}
Count(s, P(_)) == Len(SelectSeq(s, P))

\* ================================================================ rate limiter
\* the list comprehension filtering out requests older than the window
Pruned_fixed_bucket(ts, t) ==
    SelectSeq(ts, LAMBDA x : x \div RATE_LIMIT_WINDOW = t \div RATE_LIMIT_WINDOW)
Pruned_inclusive(ts, t) == SelectSeq(ts, LAMBDA x : x >= t - RATE_LIMIT_WINDOW)
Pruned(ts, t) == SelectSeq(ts, LAMBDA x : x > t - RATE_LIMIT_WINDOW)

\* the limit check
LimitReached_off_by_one(ts) == Len(ts) > RATE_LIMIT_MAX_REQUESTS
LimitReached(ts) == Len(ts) >= RATE_LIMIT_MAX_REQUESTS

\* rate_limit_store[client_ip] after the "if client_ip not in rate_limit_store" initialisation
StoredTimestamps(ip) ==
    IF ip \in DOMAIN rate_limit_store THEN rate_limit_store[ip] ELSE <<>>

\* the middleware up to call_next: the pruned list, the verdict, the list kept
RateLimitCheck_record_first(ts, t) ==
    LET kept == Append(Pruned(ts, t), t)
    IN  [allow |-> Len(kept) <= RATE_LIMIT_MAX_REQUESTS, ts |-> kept]
RateLimitCheck(ts, t) ==
    LET kept == Pruned(ts, t)
    IN  IF LimitReached(kept)
        THEN [allow |-> FALSE, ts |-> kept]
        ELSE [allow |-> TRUE, ts |-> Append(kept, t)]

\* how many requests a client sends in one behaviour
RequestBudget(ip) == IF ip = "ip1" THEN MaxRequests ELSE MaxOtherRequests

\* one request through the middleware; call_next is a route without effect here
rate_limiter(ip) ==
    /\ Len(rl_log[ip]) < RequestBudget(ip)
    /\ LET r == RateLimitCheck(StoredTimestamps(ip), now)
       IN  /\ rate_limit_store' =
                [c \in DOMAIN rate_limit_store \cup {ip} |->
                    IF c = ip THEN r.ts ELSE rate_limit_store[c]]
           /\ rl_log' = [rl_log EXCEPT ![ip] =
                Append(@, <<now, IF r.allow THEN 200 ELSE HTTP_429_TOO_MANY_REQUESTS>>)]
    /\ UNCHANGED now

\* time passes between requests: the clock moves on to a later reading
Tick(t) ==
    /\ t > now
    /\ now' = t

InitClock == now = 0

\* ================================================================ TTL cache
None == "None"
Payloads == {"sunny", "rain"}
Cities == {"Paris", "paris"}
\* str.lower()
Lower(city) == IF city = "Paris" THEN "paris" ELSE city
\* f"current_{city.lower()}" and f"forecast_{city.lower()}"
CacheKey(prefix, city) == <<prefix, Lower(city)>>
CacheKeys == {CacheKey(p, c) : p \in {"current", "forecast"}, c \in Cities}
\* clock readings around the expiry of entries set at 0 and at 1
CacheInstants == {0, 1, CACHE_TTL_SECONDS, CACHE_TTL_SECONDS + 1}

\* WeatherCache.__init__
NewWeatherCache == [store |-> [k \in {} |-> None], hits |-> 0, misses |-> 0]

Without(f, k) == [x \in DOMAIN f \ {k} |-> f[x]]
With(f, k, v) == [x \in DOMAIN f \cup {k} |-> IF x = k THEN v ELSE f[x]]

\* the expiry test of WeatherCache.get
Expired_at_expiry(entry, t) == t >= entry.expiry
Expired(entry, t) == t > entry.expiry

\* WeatherCache.get: the cache afterwards and the value returned
WeatherCache_get_keep_expired(c, key, t) ==
    IF key \notin DOMAIN c.store
    THEN [cache |-> [c EXCEPT !.misses = @ + 1], ret |-> None]
    ELSE IF Expired(c.store[key], t)
         THEN [cache |-> [c EXCEPT !.misses = @ + 1], ret |-> None]
         ELSE [cache |-> [c EXCEPT !.hits = @ + 1], ret |-> c.store[key].data]
WeatherCache_get_miss_uncounted(c, key, t) ==
    IF key \notin DOMAIN c.store
    THEN [cache |-> [c EXCEPT !.misses = @ + 1], ret |-> None]
    ELSE IF Expired(c.store[key], t)
         THEN [cache |-> [c EXCEPT !.store = Without(@, key)], ret |-> None]
         ELSE [cache |-> [c EXCEPT !.hits = @ + 1], ret |-> c.store[key].data]
WeatherCache_get(c, key, t) ==
    IF key \notin DOMAIN c.store
    THEN [cache |-> [c EXCEPT !.misses = @ + 1], ret |-> None]
    ELSE IF Expired(c.store[key], t)
         THEN [cache |-> [c EXCEPT !.store = Without(@, key), !.misses = @ + 1],
               ret |-> None]
         ELSE [cache |-> [c EXCEPT !.hits = @ + 1], ret |-> c.store[key].data]

\* WeatherCache.set
WeatherCache_set_keep_expiry(c, key, data, t) ==
    [c EXCEPT !.store = With(@, key,
        [data |-> data,
         expiry |-> IF key \in DOMAIN c.store THEN c.store[key].expiry
                    ELSE t + CACHE_TTL_SECONDS])]
WeatherCache_set(c, key, data, t) ==
    [c EXCEPT !.store = With(@, key, [data |-> data, expiry |-> t + CACHE_TTL_SECONDS])]

\* WeatherCache.clear
WeatherCache_clear_keep_counters(c) == [c EXCEPT !.store = [k \in {} |-> None]]
WeatherCache_clear(c) == [store |-> [k \in {} |-> None], hits |-> 0, misses |-> 0]

\* get_stats that counts only the entries that have not expired
WeatherCache_get_stats_live_only(c) ==
    [cache_hits |-> c.hits, cache_misses |-> c.misses,
     cached_items_count |->
         Cardinality({k \in DOMAIN c.store : ~Expired(c.store[k], now)})]

\* WeatherCache.get_stats
WeatherCache_get_stats(c) ==
    [cache_hits |-> c.hits, cache_misses |-> c.misses,
     cached_items_count |-> Cardinality(DOMAIN c.store)]

\* the record of a method call: its number, the method, its key, what it
\* returned, the counters and the number of entries it found, and the call
\* before it
Call(op, key, ret) ==
    [seq |-> last_call.seq + 1, op |-> op, key |-> key, ret |-> ret,
     hits0 |-> weather_cache.hits, misses0 |-> weather_cache.misses,
     size0 |-> Cardinality(DOMAIN weather_cache.store),
     prev |-> <<last_call.op, last_call.key, last_call.ret>>]

CallGet(key) ==
    /\ last_call.seq < MaxCalls
    /\ LET r == WeatherCache_get(weather_cache, key, now)
       IN  /\ weather_cache' = r.cache
           /\ last_call' = Call("get", key, r.ret)
    /\ n_gets' = n_gets + 1
    /\ UNCHANGED now

CallSet(key, data) ==
    /\ last_call.seq < MaxCalls
    /\ weather_cache' = WeatherCache_set(weather_cache, key, data, now)
    /\ last_call' = Call("set", key, None)
    /\ UNCHANGED <<now, n_gets>>

CallClear ==
    /\ last_call.seq < MaxCalls
    /\ weather_cache' = WeatherCache_clear(weather_cache)
    /\ last_call' = Call("clear", None, None)
    /\ n_gets' = 0
    /\ UNCHANGED now

CallGetStats ==
    /\ last_call.seq < MaxCalls
    /\ last_call' = Call("get_stats", None, WeatherCache_get_stats(weather_cache))
    /\ UNCHANGED <<now, weather_cache, n_gets>>

NoCall ==
    [seq |-> 0, op |-> None, key |-> None, ret |-> None, hits0 |-> 0,
     misses0 |-> 0, size0 |-> 0, prev |-> <<None, None, None>>]

InitCacheVars ==
    /\ weather_cache = NewWeatherCache
    /\ last_call = NoCall
    /\ n_gets = 0

InitRLVars ==
    /\ rate_limit_store = [c \in {} |-> <<>>]
    /\ rl_log = [c \in Clients |-> <<>>]

\* ================================================================ weather routes
\* what the upstream services answer: the geocoding search, then the forecast
GeoOutcomes == {"found", "not_found", "http_error", "network_error"}
WeatherOutcomes == {"ok", "http_error", "network_error", "bad_payload"}
Routes == {"current", "forecast", "cache-status", "invalidate"}
CachedRoutes == {"current", "forecast"}
\* a request: its route, its path parameter, and what the upstream services
\* will answer if they are asked (the answers nobody reads are left fixed)
HttpRequests ==
    [route : CachedRoutes, city : Cities, geo : {"found"}, wx : {"ok"},
     payload : Payloads]
    \cup [route : CachedRoutes, city : Cities, geo : {"found"},
          wx : WeatherOutcomes \ {"ok"}, payload : {"sunny"}]
    \cup [route : CachedRoutes, city : Cities, geo : GeoOutcomes \ {"found"},
          wx : {"ok"}, payload : {"sunny"}]
    \cup [route : Routes \ CachedRoutes, city : {"paris"}, geo : {"found"},
          wx : {"ok"}, payload : {"sunny"}]
\* clock readings within one rate window and past the expiry of a cache entry
WeatherInstants == {0, 1, CACHE_TTL_SECONDS + 1}

\* get_coordinates: the status it raises, 200 when it returns a location
get_coordinates(geo) ==
    CASE geo = "found" -> 200
      [] geo = "not_found" -> 404
      [] OTHER -> 503

\* the outcome of a route: the cache afterwards, the response, and whether
\* the upstream fetch was made and succeeded ("none", "ok", "failed")
Outcome(c, status, body, fetch) ==
    [cache |-> c, status |-> status, body |-> body, fetch |-> fetch]

\* GET /weather/{city}
get_current_weather_cache_any_answer(c, req, t) ==
    LET key == CacheKey("current", req.city)
        g == WeatherCache_get(c, key, t)
    IN  IF g.ret # None THEN Outcome(g.cache, 200, g.ret, "none")
        ELSE IF get_coordinates(req.geo) # 200
        THEN Outcome(g.cache, get_coordinates(req.geo), "error", "failed")
        ELSE IF req.wx = "ok"
        THEN Outcome(WeatherCache_set(g.cache, key, req.payload, t), 200, req.payload, "ok")
        ELSE Outcome(WeatherCache_set(g.cache, key, req.payload, t),
                     IF req.wx = "network_error" THEN 503 ELSE 500, "error", "failed")
get_current_weather(c, req, t) ==
    LET key == CacheKey("current", req.city)
        g == WeatherCache_get(c, key, t)
    IN  IF g.ret # None THEN Outcome(g.cache, 200, g.ret, "none")
        ELSE IF get_coordinates(req.geo) # 200
        THEN Outcome(g.cache, get_coordinates(req.geo), "error", "failed")
        ELSE IF req.wx = "ok"
        THEN Outcome(WeatherCache_set(g.cache, key, req.payload, t), 200, req.payload, "ok")
        ELSE IF req.wx = "network_error"
        THEN Outcome(g.cache, 503, "error", "failed")
        ELSE Outcome(g.cache, 500, "error", "failed")

\* GET /weather/forecast/{city}
get_weather_forecast(c, req, t) ==
    LET key == CacheKey("forecast", req.city)
        g == WeatherCache_get(c, key, t)
    IN  IF g.ret # None THEN Outcome(g.cache, 200, g.ret, "none")
        ELSE IF get_coordinates(req.geo) # 200
        THEN Outcome(g.cache, get_coordinates(req.geo), "error", "failed")
        ELSE IF req.wx = "ok"
        THEN Outcome(WeatherCache_set(g.cache, key, req.payload, t), 200, req.payload, "ok")
        ELSE IF req.wx = "network_error"
        THEN Outcome(g.cache, 503, "error", "failed")
        ELSE Outcome(g.cache, 500, "error", "failed")

\* GET /weather/cache-status
get_cache_status(c) == Outcome(c, 200, WeatherCache_get_stats(c), "none")

\* DELETE /weather/cache
invalidate_cache(c) == Outcome(WeatherCache_clear(c), 200, "invalidated", "none")

\* the route the request is dispatched to
call_next(c, req, t) ==
    CASE req.route = "current" -> get_current_weather(c, req, t)
      [] req.route = "forecast" -> get_weather_forecast(c, req, t)
      [] req.route = "cache-status" -> get_cache_status(c)
      [] req.route = "invalidate" -> invalidate_cache(c)

\* the middleware around a route: the timestamp list kept and the outcome
rate_limiter_dispatch_check_last(ts, c, req, t) ==
    LET r == RateLimitCheck(ts, t)
        out == call_next(c, req, t)
    IN  [ts |-> r.ts,
         out |-> IF r.allow THEN out
                 ELSE Outcome(out.cache, HTTP_429_TOO_MANY_REQUESTS, "rate limit exceeded", "none")]
rate_limiter_dispatch(ts, c, req, t) ==
    LET r == RateLimitCheck(ts, t)
    IN  [ts |-> r.ts,
         out |-> IF r.allow THEN call_next(c, req, t)
                 ELSE Outcome(c, HTTP_429_TOO_MANY_REQUESTS, "rate limit exceeded", "none")]

\* one HTTP request to the weather service
HttpRequest(ip, req) ==
    /\ resp.seq < MaxWeatherRequests
    /\ LET d == rate_limiter_dispatch(StoredTimestamps(ip), weather_cache, req, now)
       IN  /\ rate_limit_store' =
                [c \in DOMAIN rate_limit_store \cup {ip} |->
                    IF c = ip THEN d.ts ELSE rate_limit_store[c]]
           /\ weather_cache' = d.out.cache
           /\ resp' = [seq |-> resp.seq + 1, route |-> req.route,
                       key |-> CacheKey(req.route, req.city),
                       status |-> d.out.status, body |-> d.out.body,
                       fetch |-> d.out.fetch]
           /\ fetched' = IF d.out.fetch = "ok"
                         THEN fetched \cup {CacheKey(req.route, req.city)}
                         ELSE fetched
    /\ UNCHANGED <<now, rl_log, last_call, n_gets>>

InitHttpVars ==
    /\ resp = [seq |-> 0, route |-> None, key |-> None, status |-> 0,
               body |-> None, fetch |-> "none"]
    /\ fetched = {}

\* ================================================================ concurrent requests
\* The routes and the middleware are coroutines on one event loop: a request
\* runs without interruption from one await to the next. The awaits are
\* call_next in the middleware and the two upstream calls in a cached route.
Tasks == 1..NumTasks
NoLocal == [ip |-> None, route |-> None, key |-> None, status |-> 0, body |-> None]

\* a request arrives and its middleware is scheduled
Arrive(p, ip, route, city) ==
    /\ pc[p] = "idle"
    /\ pc' = [pc EXCEPT ![p] = "rate_limiter"]
    /\ local' = [local EXCEPT ![p] =
            [ip |-> ip, route |-> route, key |-> CacheKey(route, city),
             status |-> 0, body |-> None]]
    /\ UNCHANGED <<now, rlVars, cacheVars, httpVars>>

\* rate_limiter up to "await call_next(request)"
RunRateLimiter(p) ==
    /\ pc[p] = "rate_limiter"
    /\ LET ip == local[p].ip
           r == RateLimitCheck(StoredTimestamps(ip), now)
       IN  /\ rate_limit_store' =
                [c \in DOMAIN rate_limit_store \cup {ip} |->
                    IF c = ip THEN r.ts ELSE rate_limit_store[c]]
           /\ rl_log' = [rl_log EXCEPT ![ip] =
                Append(@, <<now, IF r.allow THEN 200 ELSE HTTP_429_TOO_MANY_REQUESTS>>)]
           /\ pc' = [pc EXCEPT ![p] = IF r.allow THEN "route" ELSE "done"]
           /\ local' = [local EXCEPT ![p].status =
                IF r.allow THEN 0 ELSE HTTP_429_TOO_MANY_REQUESTS]
    /\ UNCHANGED <<now, cacheVars, httpVars>>

\* a cached route up to "await get_coordinates(client, city)"
RunCachedRoute(p) ==
    /\ pc[p] = "route"
    /\ local[p].route \in CachedRoutes
    /\ LET g == WeatherCache_get(weather_cache, local[p].key, now)
       IN  /\ weather_cache' = g.cache
           /\ pc' = [pc EXCEPT ![p] = IF g.ret # None THEN "done" ELSE "await_geo"]
           /\ local' = [local EXCEPT ![p].status = IF g.ret # None THEN 200 ELSE 0,
                                     ![p].body = g.ret]
    /\ n_gets' = n_gets + 1
    /\ UNCHANGED <<now, rlVars, last_call, httpVars>>

\* GET /weather/cache-status
RunCacheStatus(p) ==
    /\ pc[p] = "route"
    /\ local[p].route = "cache-status"
    /\ pc' = [pc EXCEPT ![p] = "done"]
    /\ local' = [local EXCEPT ![p].status = 200,
                              ![p].body = WeatherCache_get_stats(weather_cache)]
    /\ UNCHANGED <<now, rlVars, cacheVars, httpVars>>

\* DELETE /weather/cache
RunInvalidate(p) ==
    /\ pc[p] = "route"
    /\ local[p].route = "invalidate"
    /\ weather_cache' = WeatherCache_clear(weather_cache)
    /\ n_gets' = 0
    /\ pc' = [pc EXCEPT ![p] = "done"]
    /\ local' = [local EXCEPT ![p].status = 200]
    /\ UNCHANGED <<now, rlVars, last_call, httpVars>>

\* get_coordinates returns, or raises 404 or 503
GeoReturns(p, geo) ==
    /\ pc[p] = "await_geo"
    /\ pc' = [pc EXCEPT ![p] = IF get_coordinates(geo) = 200 THEN "await_wx" ELSE "done"]
    /\ local' = [local EXCEPT ![p].status =
            IF get_coordinates(geo) = 200 THEN 0 ELSE get_coordinates(geo)]
    /\ UNCHANGED <<now, rlVars, cacheVars, httpVars>>

\* the forecast call returns: the result is built and cached, or the error
\* is turned into 503 or 500
WeatherReturns(p, wx, payload) ==
    /\ pc[p] = "await_wx"
    /\ pc' = [pc EXCEPT ![p] = "done"]
    /\ IF wx = "ok"
       THEN /\ weather_cache' = WeatherCache_set(weather_cache, local[p].key, payload, now)
            /\ local' = [local EXCEPT ![p].status = 200, ![p].body = payload]
       ELSE /\ weather_cache' = weather_cache
            /\ local' = [local EXCEPT ![p].status =
                    IF wx = "network_error" THEN 503 ELSE 500]
    /\ UNCHANGED <<now, rlVars, last_call, n_gets, httpVars>>

InitConcVars ==
    /\ pc = [p \in Tasks |-> "idle"]
    /\ local = [p \in Tasks |-> NoLocal]

\* ================================================================ blog service
Usernames == {"alice", "bob"}
Emails == {"a@x.io", "b@x.io"}
Passwords == {"passw0rd", "password", "short"}
PasswordLength(password) == IF password = "short" THEN 5 ELSE 8
HasDigit(password) == password = "passw0rd"
Titles == {"t1", "t2"}
Contents == {"c1"}
Texts == {"hi"}
\* the bodies of PUT /posts/{post_id}: a new title or a new content
PostUpdates ==
    {[title |-> "t1", content |-> None], [title |-> "t2", content |-> None],
     [title |-> None, content |-> "c1"]}

\* auth.get_password_hash and auth.verify_password
get_password_hash(password) == <<"hash", password>>
verify_password(password, hashed) == hashed = get_password_hash(password)

\* the id the store gives a new row
NextId(rows) ==
    IF rows = {} THEN 1
    ELSE (CHOOSE i \in {r.id : r \in rows} : \A r \in rows : r.id <= i) + 1

\* the uniqueness constraints of the users table, which commit enforces
UsersConstraintHolds(users) ==
    \A a, b \in users :
        (a.username = b.username \/ a.email = b.email) => a = b

NoUser == [id |-> 0, username |-> None, email |-> None, hashed_password |-> None]
First(rows) == IF rows = {} THEN NoUser ELSE CHOOSE r \in rows : TRUE

\* auth.get_current_user: the user a bearer token resolves to, NoUser for 401
get_current_user(token) ==
    IF token \in blog_tokens
    THEN First({u \in blog_db.users : u.username = token})
    ELSE NoUser

\* the response of a handler: the tables afterwards, the status and the detail
ReplyDetail(db, status, detail) == [db |-> db, status |-> status, detail |-> detail]
Reply(db, status) == ReplyDetail(db, status, None)

\* Session.add: the row waits in the session for the next commit
session_add(db, row) == [db EXCEPT !.pending = @ \cup {row}]
\* Session.commit raises IntegrityError when the waiting rows break a constraint
IntegrityError(db) == ~UsersConstraintHolds(db.users \cup db.pending)
\* Session.commit, when it succeeds: the waiting rows are stored
session_commit(db) == [db EXCEPT !.users = @ \cup db.pending, !.pending = {}]
\* Session.rollback: the waiting rows are dropped
session_rollback(db) == [db EXCEPT !.pending = {}]

\* register without the rollback in the except branch
register_no_rollback(db, username, email, password) ==
    IF \E u \in db.users : u.username = username
    THEN ReplyDetail(db, 400, "Username already registered")
    ELSE LET new_user == [id |-> NextId(db.users), username |-> username,
                          email |-> email,
                          hashed_password |-> get_password_hash(password)]
             added == session_add(db, new_user)
         IN  IF ~IntegrityError(added)
             THEN Reply(session_commit(added), 200)
             ELSE ReplyDetail(added, 400, "Email already registered")

\* POST /register, the try block and its except branch
register_try(db, username, email, password) ==
    LET new_user == [id |-> NextId(db.users), username |-> username,
                     email |-> email,
                     hashed_password |-> get_password_hash(password)]
        added == session_add(db, new_user)
    IN  IF ~IntegrityError(added)
        THEN Reply(session_commit(added), 200)
        ELSE ReplyDetail(session_rollback(added), 400, "Email already registered")

\* POST /register
register(db, username, email, password) ==
    IF \E u \in db.users : u.username = username
    THEN ReplyDetail(db, 400, "Username already registered")
    ELSE register_try(db, username, email, password)

\* POST /token: whether a token is issued
login(db, username, password) ==
    LET user == First({u \in db.users : u.username = username})
    IN  user # NoUser /\ verify_password(password, user.hashed_password)

\* POST /posts
create_post(db, current_user, title, content) ==
    LET new_post == [id |-> NextId(db.posts), title |-> title,
                     content |-> content, author_id |-> current_user.id]
    IN  Reply([db EXCEPT !.posts = @ \cup {new_post}], 201)

\* update_post without the comparison of author_id with current_user.id
update_post_any_user(db, current_user, post_id, title, content) ==
    LET found == {p \in db.posts : p.id = post_id}
    IN  IF found = {} THEN Reply(db, 404)
        ELSE LET db_post == CHOOSE p \in found : TRUE
                 updated == [db_post EXCEPT
                                !.title = IF title # None THEN title ELSE @,
                                !.content = IF content # None THEN content ELSE @]
             IN  Reply([db EXCEPT !.posts = (@ \ {db_post}) \cup {updated}], 200)

\* PUT /posts/{post_id}
update_post(db, current_user, post_id, title, content) ==
    LET found == {p \in db.posts : p.id = post_id}
    IN  IF found = {} THEN Reply(db, 404)
        ELSE LET db_post == CHOOSE p \in found : TRUE
                 updated == [db_post EXCEPT
                                !.title = IF title # None THEN title ELSE @,
                                !.content = IF content # None THEN content ELSE @]
             IN  IF db_post.author_id # current_user.id THEN Reply(db, 403)
                 ELSE Reply([db EXCEPT !.posts = (@ \ {db_post}) \cup {updated}], 200)

\* the comments that go with a deleted post
CascadeDelete(comments, post_id) == {c \in comments : c.post_id # post_id}

\* DELETE /posts/{post_id}
delete_post(db, current_user, post_id) ==
    LET found == {p \in db.posts : p.id = post_id}
    IN  IF found = {} THEN Reply(db, 404)
        ELSE LET db_post == CHOOSE p \in found : TRUE
             IN  IF db_post.author_id # current_user.id THEN Reply(db, 403)
                 ELSE Reply([db EXCEPT !.posts = @ \ {db_post},
                                       !.comments = CascadeDelete(@, post_id)], 204)

\* create_comment without the lookup of the post
create_comment_unchecked(db, current_user, post_id, text) ==
    LET new_comment == [id |-> NextId(db.comments), text |-> text,
                        post_id |-> post_id, author_id |-> current_user.id]
    IN  Reply([db EXCEPT !.comments = @ \cup {new_comment}], 200)

\* POST /posts/{post_id}/comments
create_comment(db, current_user, post_id, text) ==
    IF ~\E p \in db.posts : p.id = post_id
    THEN Reply(db, 404)
    ELSE LET new_comment == [id |-> NextId(db.comments), text |-> text,
                             post_id |-> post_id, author_id |-> current_user.id]
         IN  Reply([db EXCEPT !.comments = @ \cup {new_comment}], 200)

\* DELETE /comments/{comment_id}
delete_comment(db, current_user, comment_id) ==
    LET found == {c \in db.comments : c.id = comment_id}
    IN  IF found = {} THEN Reply(db, 404)
        ELSE LET comment == CHOOSE c \in found : TRUE
             IN  IF comment.author_id # current_user.id THEN Reply(db, 403)
                 ELSE Reply([db EXCEPT !.comments = @ \ {comment}], 204)

\* the record of a request: the route, the status, the detail, the number of
\* comments it removed, whether a registration has been rolled back so far,
\* and whether the request carried a token that resolves to a user
BlogResp(op, r) ==
    [op |-> op, status |-> r.status, detail |-> r.detail, authenticated |-> FALSE,
     rolled_back |-> blog_resp.rolled_back \/ r.detail = "Email already registered",
     removed |-> Cardinality(blog_db.comments) - Cardinality(r.db.comments)]

\* a protected route whose body runs before the token is resolved
Protected_body_first(op, token, r) ==
    LET current_user == get_current_user(token)
    IN  /\ blog_db' = r.db
        /\ blog_resp' =
              IF current_user = NoUser
              THEN BlogResp(op, Reply(r.db, 401))
              ELSE [BlogResp(op, r) EXCEPT !.authenticated = TRUE]

\* a route behind Depends(auth.get_current_user): 401 without a valid token
Protected(op, token, r) ==
    LET current_user == get_current_user(token)
    IN  IF current_user = NoUser
        THEN /\ blog_db' = blog_db
             /\ blog_resp' = BlogResp(op, Reply(blog_db, 401))
        ELSE /\ blog_db' = r.db
             /\ blog_resp' = [BlogResp(op, r) EXCEPT !.authenticated = TRUE]

BlogRegister(username, email, password) ==
    /\ LET r == register(blog_db, username, email, password)
       IN  /\ blog_db' = r.db
           /\ blog_resp' = BlogResp("register", r)
    /\ UNCHANGED blog_tokens

BlogLogin(username, password) ==
    /\ IF login(blog_db, username, password)
       THEN /\ blog_tokens' = blog_tokens \cup {username}
            /\ blog_resp' = BlogResp("login", Reply(blog_db, 200))
       ELSE /\ blog_tokens' = blog_tokens
            /\ blog_resp' = BlogResp("login", Reply(blog_db, 401))
    /\ UNCHANGED blog_db

BlogCreatePost(token, title, content) ==
    /\ NextId(blog_db.posts) <= MaxPostId
    /\ Protected("create_post", token,
                 create_post(blog_db, get_current_user(token), title, content))
    /\ UNCHANGED blog_tokens

BlogUpdatePost(token, post_id, title, content) ==
    /\ Protected("update_post", token,
                 update_post(blog_db, get_current_user(token), post_id, title, content))
    /\ UNCHANGED blog_tokens

BlogDeletePost(token, post_id) ==
    /\ Protected("delete_post", token,
                 delete_post(blog_db, get_current_user(token), post_id))
    /\ UNCHANGED blog_tokens

BlogCreateComment(token, post_id, text) ==
    /\ NextId(blog_db.comments) <= MaxCommentId
    /\ Protected("create_comment", token,
                 create_comment(blog_db, get_current_user(token), post_id, text))
    /\ UNCHANGED blog_tokens

BlogDeleteComment(token, comment_id) ==
    /\ Protected("delete_comment", token,
                 delete_comment(blog_db, get_current_user(token), comment_id))
    /\ UNCHANGED blog_tokens

BlogTokens == Usernames \cup {"no token"}
PostIds == 1..(MaxPostId + 1)
CommentIds == 1..(MaxCommentId + 1)

\* the tables after create_all, and a session with nothing waiting
NewBlogDb == [users |-> {}, posts |-> {}, comments |-> {}, pending |-> {}]

InitBlogVars ==
    /\ blog_db = NewBlogDb
    /\ blog_tokens = {}
    /\ blog_resp = [op |-> None, status |-> 0, detail |-> None,
                    authenticated |-> FALSE, rolled_back |-> FALSE,
                    removed |-> 0]

\* ================================================================ user service
\* schemas.UserCreate.validate_password: at least 8 characters and a digit
validate_password(password) ==
    PasswordLength(password) >= 8 /\ HasDigit(password)

\* the uniqueness constraint of the users table, which commit enforces
SvcConstraintHolds(users) ==
    \A a, b \in users : a.email = b.email => a = b

\* security.get_current_user: the user a bearer token resolves to
svc_get_current_user(token) ==
    IF token \in svc_tokens
    THEN First({u \in svc_users : u.email = token})
    ELSE NoUser

SvcReply(users, status) == [users |-> users, status |-> status]

\* POST /register, from the creation of the user to the commit: nothing
\* catches the IntegrityError of the commit, so the answer is then 500
svc_register_commit(users, email, username, password) ==
    LET new_user == [id |-> NextId(users), username |-> username,
                     email |-> email,
                     hashed_password |-> get_password_hash(password)]
    IN  IF SvcConstraintHolds(users \cup {new_user})
        THEN SvcReply(users \cup {new_user}, 201)
        ELSE SvcReply(users, 500)

\* POST /register
svc_register(users, email, username, password) ==
    IF ~validate_password(password) THEN SvcReply(users, 422)
    ELSE IF \E u \in users : u.email = email THEN SvcReply(users, 400)
    ELSE svc_register_commit(users, email, username, password)

\* POST /login: whether a token is issued
svc_login(users, email, password) ==
    LET user == First({u \in users : u.email = email})
    IN  user # NoUser /\ verify_password(password, user.hashed_password)

\* update_user_me without the lookup of the new email
update_user_me_unchecked(users, current_user, username, email) ==
    LET updated == [current_user EXCEPT
                       !.email = IF email # None THEN email ELSE @,
                       !.username = IF username # None THEN username ELSE @]
    IN  SvcReply((users \ {current_user}) \cup {updated}, 200)

\* PUT /users/me
update_user_me(users, current_user, username, email) ==
    IF /\ email # None
       /\ email # current_user.email
       /\ \E u \in users : u.email = email
    THEN SvcReply(users, 400)
    ELSE LET updated == [current_user EXCEPT
                            !.email = IF email # None THEN email ELSE @,
                            !.username = IF username # None THEN username ELSE @]
             users1 == (users \ {current_user}) \cup {updated}
         IN  IF SvcConstraintHolds(users1)
             THEN SvcReply(users1, 200)
             ELSE SvcReply(users, 500)

SvcRegister(email, username, password) ==
    /\ LET r == svc_register(svc_users, email, username, password)
       IN  /\ svc_users' = r.users
           /\ svc_resp' = [op |-> "register", status |-> r.status]
    /\ UNCHANGED svc_tokens

SvcLogin(email, password) ==
    /\ IF svc_login(svc_users, email, password)
       THEN /\ svc_tokens' = svc_tokens \cup {email}
            /\ svc_resp' = [op |-> "login", status |-> 200]
       ELSE /\ svc_tokens' = svc_tokens
            /\ svc_resp' = [op |-> "login", status |-> 401]
    /\ UNCHANGED svc_users

SvcReadUsersMe(token) ==
    /\ svc_resp' = [op |-> "read_users_me",
                    status |-> IF svc_get_current_user(token) = NoUser
                               THEN 401 ELSE 200]
    /\ UNCHANGED <<svc_users, svc_tokens>>

SvcUpdateUserMe(token, username, email) ==
    /\ LET current_user == svc_get_current_user(token)
       IN  IF current_user = NoUser
           THEN /\ svc_users' = svc_users
                /\ svc_resp' = [op |-> "update_user_me", status |-> 401]
           ELSE LET r == update_user_me(svc_users, current_user, username, email)
                IN  /\ svc_users' = r.users
                    /\ svc_resp' = [op |-> "update_user_me", status |-> r.status]
    /\ UNCHANGED svc_tokens

SvcTokens == Emails \cup {"no token"}

InitSvcVars ==
    /\ svc_users = {}
    /\ svc_tokens = {}
    /\ svc_resp = [op |-> None, status |-> 0]

InitWeatherVars ==
    InitClock /\ InitRLVars /\ InitCacheVars /\ InitHttpVars /\ InitConcVars

\* ================================================================ concurrent registrations
\* the local variables of a register request: the service, the body, whether
\* it has passed the lookup of its key, and the status of its answer
NoRegistration ==
    [svc |-> None, username |-> None, email |-> None, password |-> None,
     passed |-> FALSE, status |-> 0]

\* user service: the request is validated and awaits the lookup of its email;
\* the lookup returns, and the handler goes on to the commit or raises 400
SvcRegisterLookup(p, email, username, password) ==
    /\ pc[p] = "idle"
    /\ LET status == IF ~validate_password(password) THEN 422
                     ELSE IF \E u \in svc_users : u.email = email THEN 400
                     ELSE 0
       IN  /\ pc' = [pc EXCEPT ![p] = IF status = 0 THEN "commit" ELSE "done"]
           /\ local' = [local EXCEPT ![p] =
                   [svc |-> "users", username |-> username, email |-> email,
                    password |-> password, passed |-> status = 0,
                    status |-> status]]
    /\ UNCHANGED <<now, rlVars, cacheVars, httpVars, blogVars, svcVars>>

\* user service: the commit the handler awaits
SvcRegisterCommit(p) ==
    /\ pc[p] = "commit"
    /\ local[p].svc = "users"
    /\ LET r == svc_register_commit(svc_users, local[p].email,
                                    local[p].username, local[p].password)
       IN  /\ svc_users' = r.users
           /\ local' = [local EXCEPT ![p].status = r.status]
    /\ pc' = [pc EXCEPT ![p] = "done"]
    /\ UNCHANGED <<now, rlVars, cacheVars, httpVars, blogVars, svc_tokens, svc_resp>>

\* blog: the worker thread of the request looks its username up
BlogRegisterLookup(p, username, email, password) ==
    /\ pc[p] = "idle"
    /\ LET taken == \E u \in blog_db.users : u.username = username
       IN  /\ pc' = [pc EXCEPT ![p] = IF taken THEN "done" ELSE "commit"]
           /\ local' = [local EXCEPT ![p] =
                   [svc |-> "blog", username |-> username, email |-> email,
                    password |-> password, passed |-> ~taken,
                    status |-> IF taken THEN 400 ELSE 0]]
    /\ UNCHANGED <<now, rlVars, cacheVars, httpVars, blogVars, svcVars>>

\* blog: the worker thread adds the user and commits
BlogRegisterCommit(p) ==
    /\ pc[p] = "commit"
    /\ local[p].svc = "blog"
    /\ LET r == register_try(blog_db, local[p].username, local[p].email,
                             local[p].password)
       IN  /\ blog_db' = r.db
           /\ local' = [local EXCEPT ![p].status = r.status]
    /\ pc' = [pc EXCEPT ![p] = "done"]
    /\ UNCHANGED <<now, rlVars, cacheVars, httpVars, blog_tokens, blog_resp, svcVars>>

\* ================================================================ specifications
InitRL == InitWeatherVars /\ InitBlogVars /\ InitSvcVars

NextRL ==
    \/ \E ip \in Clients :
            rate_limiter(ip) /\ UNCHANGED <<cacheVars, httpVars, concVars, blogVars, svcVars>>
    \/ \E t \in RateInstants :
            Tick(t) /\ UNCHANGED <<rlVars, cacheVars, httpVars, concVars, blogVars, svcVars>>

SpecRL == InitRL /\ [][NextRL]_vars

InitCache == InitWeatherVars /\ InitBlogVars /\ InitSvcVars

NextCache ==
    \/ \E key \in CacheKeys :
            CallGet(key) /\ UNCHANGED <<rlVars, httpVars, concVars, blogVars, svcVars>>
    \/ \E key \in CacheKeys, data \in Payloads :
            CallSet(key, data) /\ UNCHANGED <<rlVars, httpVars, concVars, blogVars, svcVars>>
    \/ CallClear /\ UNCHANGED <<rlVars, httpVars, concVars, blogVars, svcVars>>
    \/ CallGetStats /\ UNCHANGED <<rlVars, httpVars, concVars, blogVars, svcVars>>
    \/ \E t \in CacheInstants :
            Tick(t) /\ UNCHANGED <<rlVars, cacheVars, httpVars, concVars, blogVars, svcVars>>

SpecCache == InitCache /\ [][NextCache]_vars

\* the service is fresh, or has just answered PriorRequests requests of the
\* client for GET /weather/cache-status, which leave the cache as it is
InitWeather ==
    /\ InitClock
    /\ \E k \in {0, PriorRequests} :
          rate_limit_store = IF k = 0 THEN [c \in {} |-> <<>>]
                             ELSE [c \in {"ip1"} |-> [i \in 1..k |-> 0]]
    /\ rl_log = [c \in Clients |-> <<>>]
    /\ InitCacheVars
    /\ InitHttpVars
    /\ InitConcVars
    /\ InitBlogVars
    /\ InitSvcVars

NextWeather ==
    \/ \E ip \in {"ip1"}, req \in HttpRequests :
            HttpRequest(ip, req) /\ UNCHANGED <<concVars, blogVars, svcVars>>
    \/ \E t \in WeatherInstants :
            Tick(t) /\ UNCHANGED <<rlVars, cacheVars, httpVars, concVars, blogVars, svcVars>>

SpecWeather == InitWeather /\ [][NextWeather]_vars

\* the requests in flight arrive at a service that is fresh, or that has just
\* allowed ConcPriorRequests requests of client ip1 for GET /weather/cache-status
InitConc ==
    /\ InitClock
    /\ \E k \in {0, ConcPriorRequests} :
          /\ rate_limit_store = IF k = 0 THEN [c \in {} |-> <<>>]
                                ELSE [c \in {"ip1"} |-> [i \in 1..k |-> 0]]
          /\ rl_log = [c \in Clients |->
                IF c = "ip1" THEN [i \in 1..k |-> <<0, 200>>] ELSE <<>>]
    /\ InitCacheVars
    /\ InitHttpVars
    /\ InitConcVars
    /\ InitBlogVars
    /\ InitSvcVars

NextConc ==
    \/ \E p \in Tasks, ip \in {"ip1"}, route \in Routes, city \in Cities :
            Arrive(p, ip, route, city) /\ UNCHANGED <<blogVars, svcVars>>
    \/ \E p \in Tasks : RunRateLimiter(p) /\ UNCHANGED <<blogVars, svcVars>>
    \/ \E p \in Tasks : RunCachedRoute(p) /\ UNCHANGED <<blogVars, svcVars>>
    \/ \E p \in Tasks : RunCacheStatus(p) /\ UNCHANGED <<blogVars, svcVars>>
    \/ \E p \in Tasks : RunInvalidate(p) /\ UNCHANGED <<blogVars, svcVars>>
    \/ \E p \in Tasks, geo \in GeoOutcomes :
            GeoReturns(p, geo) /\ UNCHANGED <<blogVars, svcVars>>
    \/ \E p \in Tasks, wx \in WeatherOutcomes, payload \in Payloads :
            WeatherReturns(p, wx, payload) /\ UNCHANGED <<blogVars, svcVars>>
    \/ \E t \in WeatherInstants :
            Tick(t) /\ UNCHANGED <<rlVars, cacheVars, httpVars, concVars, blogVars, svcVars>>

SpecConc == InitConc /\ [][NextConc]_vars

\* the blog once alice and bob have registered
InitBlog ==
    /\ InitWeatherVars
    /\ InitSvcVars
    /\ LET r1 == register(NewBlogDb, "alice", "a@x.io", "passw0rd")
           r2 == register(r1.db, "bob", "b@x.io", "passw0rd")
       IN  blog_db = r2.db
    /\ blog_tokens = {}
    /\ blog_resp = [op |-> "register", status |-> 200, detail |-> None,
                    authenticated |-> FALSE, rolled_back |-> FALSE,
                    removed |-> 0]

NextBlog ==
    \/ \E u \in Usernames, pw \in Passwords :
            BlogLogin(u, pw) /\ UNCHANGED <<weatherVars, svcVars>>
    \/ \E tok \in BlogTokens, t \in Titles, c \in Contents :
            BlogCreatePost(tok, t, c) /\ UNCHANGED <<weatherVars, svcVars>>
    \/ \E tok \in BlogTokens, id \in PostIds, u \in PostUpdates :
            BlogUpdatePost(tok, id, u.title, u.content)
                /\ UNCHANGED <<weatherVars, svcVars>>
    \/ \E tok \in BlogTokens, id \in PostIds :
            BlogDeletePost(tok, id) /\ UNCHANGED <<weatherVars, svcVars>>
    \/ \E tok \in BlogTokens, id \in PostIds, x \in Texts :
            BlogCreateComment(tok, id, x) /\ UNCHANGED <<weatherVars, svcVars>>
    \/ \E tok \in BlogTokens, id \in CommentIds :
            BlogDeleteComment(tok, id) /\ UNCHANGED <<weatherVars, svcVars>>

SpecBlog == InitBlog /\ [][NextBlog]_vars

InitIdentity == InitWeatherVars /\ InitBlogVars /\ InitSvcVars

NextIdentity ==
    \/ \E u \in Usernames, e \in Emails :
            BlogRegister(u, e, "passw0rd") /\ UNCHANGED <<weatherVars, svcVars>>
    \/ \E e \in Emails, u \in Usernames, pw \in Passwords :
            SvcRegister(e, u, pw) /\ UNCHANGED <<weatherVars, blogVars>>
    \/ \E e \in Emails, pw \in Passwords :
            SvcLogin(e, pw) /\ UNCHANGED <<weatherVars, blogVars>>
    \/ \E tok \in SvcTokens :
            SvcReadUsersMe(tok) /\ UNCHANGED <<weatherVars, blogVars>>
    \/ \E tok \in SvcTokens, u \in Usernames \cup {None}, e \in Emails \cup {None} :
            SvcUpdateUserMe(tok, u, e) /\ UNCHANGED <<weatherVars, blogVars>>

SpecIdentity == InitIdentity /\ [][NextIdentity]_vars

InitRegistration == InitWeatherVars /\ InitBlogVars /\ InitSvcVars

NextRegistration ==
    \/ \E u \in Usernames, e \in Emails, pw \in Passwords :
            BlogRegister(u, e, pw) /\ UNCHANGED <<weatherVars, svcVars>>
    \/ \E u \in Usernames, pw \in Passwords :
            BlogLogin(u, pw) /\ UNCHANGED <<weatherVars, svcVars>>

SpecRegistration == InitRegistration /\ [][NextRegistration]_vars

InitRace ==
    /\ InitClock /\ InitRLVars /\ InitCacheVars /\ InitHttpVars
    /\ InitBlogVars /\ InitSvcVars
    /\ pc = [p \in Tasks |-> "idle"]
    /\ local = [p \in Tasks |-> NoRegistration]

NextRace ==
    \/ \E p \in Tasks, e \in Emails, u \in Usernames, pw \in Passwords :
            SvcRegisterLookup(p, e, u, pw)
    \/ \E p \in Tasks : SvcRegisterCommit(p)
    \/ \E p \in Tasks, u \in Usernames, e \in Emails :
            BlogRegisterLookup(p, u, e, "passw0rd")
    \/ \E p \in Tasks : BlogRegisterCommit(p)

SpecRace == InitRace /\ [][NextRace]_vars

InitTokens == InitWeatherVars /\ InitBlogVars /\ InitSvcVars

NextTokens ==
    \/ \E u \in Usernames, e \in Emails :
            BlogRegister(u, e, "passw0rd") /\ UNCHANGED <<weatherVars, svcVars>>
    \/ \E u \in Usernames :
            BlogLogin(u, "passw0rd") /\ UNCHANGED <<weatherVars, svcVars>>
    \/ \E e \in Emails, u \in Usernames :
            SvcRegister(e, u, "passw0rd") /\ UNCHANGED <<weatherVars, blogVars>>
    \/ \E e \in Emails :
            SvcLogin(e, "passw0rd") /\ UNCHANGED <<weatherVars, blogVars>>
    \/ \E tok \in SvcTokens :
            SvcReadUsersMe(tok) /\ UNCHANGED <<weatherVars, blogVars>>
    \/ \E tok \in SvcTokens, u \in Usernames \cup {None}, e \in Emails \cup {None} :
            SvcUpdateUserMe(tok, u, e) /\ UNCHANGED <<weatherVars, blogVars>>

SpecTokens == InitTokens /\ [][NextTokens]_vars

\* ---------------------------------------------------------------- C1
Allowed(e) == e[2] # HTTP_429_TOO_MANY_REQUESTS
Denied(e) == e[2] = HTTP_429_TOO_MANY_REQUESTS
RequestInstants(ip) == {e[1] : e \in Range(rl_log[ip])}
\* no allowed request of ip is still inside the window when t0 begins
EmptyWindowAt(ip, t0) ==
    \A e \in Range(rl_log[ip]) :
        ~(Allowed(e) /\ t0 - RATE_LIMIT_WINDOW < e[1] /\ e[1] < t0)
InBurst(e, t0) == t0 <= e[1] /\ e[1] <= t0 + 1

\* C1: a client that starts with an empty window and sends k requests within
\* one second gets min(k, 10) of them allowed and the rest denied with 429 (so
\* 11 requests give 10 Allow and 1 Deny); this holds again for a burst that
\* starts once the window has elapsed, and whatever other clients send.
C1_BurstQuota ==
    \A ip \in Clients : \A t0 \in RequestInstants(ip) :
        EmptyWindowAt(ip, t0) =>
            LET k == Count(rl_log[ip], LAMBDA e : InBurst(e, t0))
                a == Count(rl_log[ip], LAMBDA e : InBurst(e, t0) /\ Allowed(e))
                d == Count(rl_log[ip], LAMBDA e : InBurst(e, t0) /\ Denied(e))
            IN  /\ a = Min(k, RATE_LIMIT_MAX_REQUESTS)
                /\ d = k - Min(k, RATE_LIMIT_MAX_REQUESTS)

\* some client got 10 Allow and 1 Deny in a burst, and again after the window
\* elapsed, while another client was sending too
C1_Witness ==
    \E ip \in Clients : \E t0, t1 \in RequestInstants(ip) :
        /\ t1 >= t0 + 1 + RATE_LIMIT_WINDOW
        /\ EmptyWindowAt(ip, t0)
        /\ EmptyWindowAt(ip, t1)
        /\ Count(rl_log[ip], LAMBDA e : InBurst(e, t0)) = 11
        /\ Count(rl_log[ip], LAMBDA e : InBurst(e, t0) /\ Denied(e)) = 1
        /\ Count(rl_log[ip], LAMBDA e : InBurst(e, t1)) = 11
        /\ Count(rl_log[ip], LAMBDA e : InBurst(e, t1) /\ Denied(e)) = 1
        /\ \E other \in Clients \ {ip} : rl_log[other] # <<>>

\* ---------------------------------------------------------------- C2
AllowedInWindow(ip, v) ==
    Count(rl_log[ip], LAMBDA e :
        Allowed(e) /\ v - RATE_LIMIT_WINDOW < e[1] /\ e[1] <= v)

\* the instants at which the number of allowed requests in (v - 60, v] can
\* reach its maximum: that number only grows when v passes a request instant
WindowEnds(ip) == RequestInstants(ip) \cup {now}

\* C2: for every client and every instant v, at most 10 requests were allowed
\* with an instant in (v - 60, v], and no stored timestamp list is longer
\* than 10.
C2_SlidingWindow ==
    \A ip \in Clients :
        /\ \A v \in WindowEnds(ip) :
              AllowedInWindow(ip, v) <= RATE_LIMIT_MAX_REQUESTS
        /\ Len(StoredTimestamps(ip)) <= RATE_LIMIT_MAX_REQUESTS

\* a full window of allowed requests that straddles the boundary of the
\* clock-aligned minute, followed by a denial
C2_Witness ==
    \E ip \in Clients :
        /\ AllowedInWindow(ip, now) = RATE_LIMIT_MAX_REQUESTS
        /\ \E e \in Range(rl_log[ip]) :
              Allowed(e) /\ e[1] < RATE_LIMIT_WINDOW
        /\ \E e \in Range(rl_log[ip]) :
              Allowed(e) /\ e[1] >= RATE_LIMIT_WINDOW
        /\ rl_log[ip][Len(rl_log[ip])] = <<now, HTTP_429_TOO_MANY_REQUESTS>>

\* ---------------------------------------------------------------- C3
LastStatus(log) == log[Len(log)][2]
LastDenied(ip) ==
    rl_log[ip] # <<>> /\ LastStatus(rl_log[ip]) = HTTP_429_TOO_MANY_REQUESTS

\* C3: a denied check leaves the client's timestamp list without any new
\* instant, and a client whose last request was denied (after however many
\* denied retries) is allowed the request it sends at any time >= the oldest
\* recorded instant + 60.
C3_DenialDoesNotExtendLockout ==
    [][\A ip \in Clients :
         Len(rl_log'[ip]) = Len(rl_log[ip]) + 1 =>
            LET before == StoredTimestamps(ip)
                after == rate_limit_store'[ip]
                status == LastStatus(rl_log'[ip])
            IN  /\ status = HTTP_429_TOO_MANY_REQUESTS =>
                      /\ Len(after) <= Len(before)
                      /\ Range(after) \subseteq Range(before)
                /\ ( /\ LastDenied(ip)
                     /\ before # <<>>
                     /\ now >= before[1] + RATE_LIMIT_WINDOW ) =>
                      status # HTTP_429_TOO_MANY_REQUESTS
    ]_vars

\* a client was denied, retried and was denied again, and was allowed once the
\* oldest of its recorded instants was a full window old
C3_Witness ==
    \E ip \in Clients : \E i \in 1..Len(rl_log[ip]) :
        /\ i + 2 <= Len(rl_log[ip])
        /\ Denied(rl_log[ip][i])
        /\ Denied(rl_log[ip][i + 1])
        /\ Allowed(rl_log[ip][i + 2])
        /\ Allowed(rl_log[ip][1])
        /\ rl_log[ip][i + 2][1] >= rl_log[ip][1][1] + RATE_LIMIT_WINDOW

\* ---------------------------------------------------------------- C4
\* the step is a call of WeatherCache method op
IsCall(op) == last_call'.seq = last_call.seq + 1 /\ last_call'.op = op
Live(key) ==
    /\ key \in DOMAIN weather_cache.store
    /\ now <= weather_cache.store[key].expiry

GetContract ==
    IsCall("get") =>
        LET key == last_call'.key
        IN  IF Live(key)
            THEN /\ last_call'.ret = weather_cache.store[key].data
                 /\ weather_cache'.hits = weather_cache.hits + 1
                 /\ weather_cache'.misses = weather_cache.misses
                 /\ weather_cache'.store = weather_cache.store
            ELSE /\ last_call'.ret = None
                 /\ weather_cache'.hits = weather_cache.hits
                 /\ weather_cache'.misses = weather_cache.misses + 1
                 /\ weather_cache'.store = Without(weather_cache.store, key)

SetContract ==
    IsCall("set") =>
        /\ last_call'.key \in DOMAIN weather_cache'.store
        /\ weather_cache'.store[last_call'.key].expiry = now + CACHE_TTL_SECONDS

\* C4: get returns the stored value iff the key is present and now <= expiry
\* (expiry = time of the set + 600); otherwise it reports a miss and removes
\* the entry if there is one; each get adds exactly 1 to exactly one of hits
\* and misses (hits iff a value is returned), so hits + misses is the number
\* of get calls since the last clear.
C4_GetContract ==
    /\ [](weather_cache.hits + weather_cache.misses = n_gets)
    /\ [][GetContract /\ SetContract]_vars

\* a get of a key was a hit, and the next call, a later get of the same key,
\* found the entry expired, removed it and counted a miss
C4_Witness ==
    /\ last_call.op = "get"
    /\ last_call.ret = None
    /\ last_call.prev[1] = "get"
    /\ last_call.prev[2] = last_call.key
    /\ last_call.prev[3] # None
    /\ last_call.size0 = Cardinality(DOMAIN weather_cache.store) + 1
    /\ weather_cache.hits >= 1
    /\ weather_cache.misses >= 1

\* ---------------------------------------------------------------- C5
\* C5: a get of a key that follows a get of the same key that returned a
\* value, while the entry is within its TTL, returns the same payload, brings
\* hits to 2 more and misses to the same as before the first of the two, and
\* leaves the store (entry and expiry) unchanged; clear empties the store and
\* zeroes both counters, and the get that follows a clear is a miss.
C5_IdempotentGetAndClear ==
    [][ /\ ( /\ IsCall("get")
             /\ last_call.op = "get"
             /\ last_call.key = last_call'.key
             /\ last_call.ret # None
             /\ Live(last_call.key) ) =>
                /\ last_call'.ret = last_call.ret
                /\ weather_cache'.hits = last_call.hits0 + 2
                /\ weather_cache'.misses = last_call.misses0
                /\ weather_cache'.store = weather_cache.store
        /\ IsCall("clear") =>
                /\ DOMAIN weather_cache'.store = {}
                /\ weather_cache'.hits = 0
                /\ weather_cache'.misses = 0
        /\ (IsCall("get") /\ last_call.op = "clear") =>
                /\ last_call'.ret = None
                /\ weather_cache'.hits = 0
                /\ weather_cache'.misses = 1
    ]_vars

\* two consecutive gets of one key both returned its payload
C5_Witness ==
    /\ last_call.op = "get"
    /\ last_call.ret \in Payloads
    /\ last_call.prev = <<"get", last_call.key, last_call.ret>>
    /\ weather_cache.hits = last_call.hits0 + 1
    /\ last_call.hits0 >= 1

\* ---------------------------------------------------------------- C6
IsHttpRequest == resp'.seq = resp.seq + 1
SameEntries(before, after) ==
    \A k \in DOMAIN after : k \in DOMAIN before /\ after[k] = before[k]

\* a denied request leaves the cache as it was
DenialKeepsCache ==
    (IsHttpRequest /\ resp'.status = HTTP_429_TOO_MANY_REQUESTS) =>
        weather_cache' = weather_cache

\* an allowed request of a cached route reads the cache once, before any
\* upstream fetch: a live entry is answered from the cache without a fetch, a
\* miss is followed by the fetch, and only a successful fetch stores an entry
CachedRouteOrder ==
    ( /\ IsHttpRequest
      /\ resp'.route \in CachedRoutes
      /\ resp'.status # HTTP_429_TOO_MANY_REQUESTS ) =>
        LET key == resp'.key
        IN  /\ weather_cache'.hits + weather_cache'.misses =
                  weather_cache.hits + weather_cache.misses + 1
            /\ IF Live(key)
               THEN /\ resp'.fetch = "none"
                    /\ resp'.status = 200
                    /\ resp'.body = weather_cache.store[key].data
                    /\ weather_cache'.store = weather_cache.store
               ELSE /\ resp'.fetch # "none"
                    /\ resp'.fetch = "ok" =>
                          /\ resp'.status = 200
                          /\ weather_cache'.store[key] =
                                [data |-> resp'.body, expiry |-> now + CACHE_TTL_SECONDS]
                    /\ resp'.fetch = "failed" =>
                          /\ resp'.status \in {404, 500, 503}
                          /\ SameEntries(weather_cache.store, weather_cache'.store)

\* C6: on the cached routes the rate limiter is checked first, then the cache
\* is read, then on a miss the upstream is fetched and the result stored; a
\* 429 changes neither the cache store nor its counters, a failed fetch
\* creates and overwrites no entry, and every entry in the store belongs to a
\* key whose upstream fetch has succeeded.
C6_CachedRoutePipeline ==
    /\ [](DOMAIN weather_cache.store \subseteq fetched)
    /\ [][DenialKeepsCache /\ CachedRouteOrder]_vars

\* a cached route was denied with 429 while the cache held an entry and had
\* counted a hit
C6_Witness ==
    /\ resp.status = HTTP_429_TOO_MANY_REQUESTS
    /\ resp.route \in CachedRoutes
    /\ resp.key \in DOMAIN weather_cache.store
    /\ weather_cache.hits >= 1

\* ---------------------------------------------------------------- C7
\* the instants of the allowed requests of ip, in the order of their checks
AllowedInstants(ip) ==
    LET ok == SelectSeq(rl_log[ip], Allowed)
    IN  [i \in 1..Len(ok) |-> ok[i][1]]
LastCheck(ip) == IF rl_log[ip] = <<>> THEN 0 ELSE rl_log[ip][Len(rl_log[ip])][1]

\* no update of a timestamp list is lost: the list of ip holds exactly the
\* allowed instants that were inside the window at its latest check
NoLostTimestamp ==
    \A ip \in Clients :
        StoredTimestamps(ip) =
            SelectSeq(AllowedInstants(ip),
                      LAMBDA t : t > LastCheck(ip) - RATE_LIMIT_WINDOW)

QuotaUnderInterleaving ==
    \A ip \in Clients : \A v \in WindowEnds(ip) :
        AllowedInWindow(ip, v) <= RATE_LIMIT_MAX_REQUESTS

\* task p takes the step from pc value a to pc value b
Moves(p, a, b) == pc[p] = a /\ pc'[p] = b

\* an entry stays as it is unless this step clears the cache, overwrites the
\* entry by a set for its key, or is a get that finds it expired; and a set
\* stores its payload with a fresh expiry
NoLostSet ==
    /\ \A k \in DOMAIN weather_cache.store :
          \/ k \in DOMAIN weather_cache'.store
               /\ weather_cache'.store[k] = weather_cache.store[k]
          \/ \E p \in Tasks :
                \/ Moves(p, "route", "done") /\ local[p].route = "invalidate"
                \/ Moves(p, "await_wx", "done") /\ local[p].key = k
                                               /\ local'[p].status = 200
                \/ pc[p] = "route" /\ pc'[p] # "route" /\ local[p].key = k
                                   /\ ~Live(k)
    /\ \A p \in Tasks :
          (Moves(p, "await_wx", "done") /\ local'[p].status = 200) =>
              /\ local[p].key \in DOMAIN weather_cache'.store
              /\ weather_cache'.store[local[p].key] =
                    [data |-> local'[p].body, expiry |-> now + CACHE_TTL_SECONDS]

\* C7: whatever the interleaving of the requests in flight, the timestamp
\* list of a client holds every allowed instant still inside its window, at
\* most 10 requests are allowed per window, every get is counted exactly once
\* in hits or misses (since the last clear), and no set is lost.
C7_NoLostUpdates ==
    /\ [](NoLostTimestamp /\ QuotaUnderInterleaving)
    /\ [](weather_cache.hits + weather_cache.misses = n_gets)
    /\ [][NoLostSet]_vars

\* two requests of one client for one key were in flight together: both were
\* allowed at the same instant, both missed the cache, one has stored its
\* result and the other is still waiting for the upstream
C7_Witness ==
    \E p, q \in Tasks :
        /\ p # q
        /\ pc[p] = "done" /\ local[p].status = 200
        /\ pc[q] = "await_wx"
        /\ local[p].route \in CachedRoutes
        /\ local[p].ip = local[q].ip
        /\ local[p].key = local[q].key
        /\ local[p].body \in Payloads
        /\ weather_cache.misses >= 2
        /\ weather_cache.hits = 0
        /\ local[p].key \in DOMAIN weather_cache.store
        /\ Len(StoredTimestamps(local[p].ip)) >= 2
        /\ now = 0

\* ---------------------------------------------------------------- C8
\* the token resolves to a user other than the author
NotOwner(token, author_id) ==
    /\ get_current_user(token) # NoUser
    /\ get_current_user(token).id # author_id

\* the step answers 403 and changes nothing
Refused403 ==
    /\ blog_resp'.status = 403
    /\ blog_db' = blog_db
    /\ blog_tokens' = blog_tokens

\* the request comes from the author, or from nobody and changes nothing
OwnerOrNobody(token, author_id) ==
    \/ get_current_user(token).id = author_id
    \/ get_current_user(token) = NoUser /\ blog_db' = blog_db

\* a step of update_post, delete_post or delete_comment that is not a
\* refusal with 403 is no request of an authenticated user on a post or
\* comment of another author; if it changes the tables, it is the author's
OwnershipRespected ==
    /\ (blog_resp'.op = "update_post" /\ ~Refused403) =>
          \A tok \in BlogTokens, p \in blog_db.posts, u \in PostUpdates :
              \/ OwnerOrNobody(tok, p.author_id)
              \/ ~BlogUpdatePost(tok, p.id, u.title, u.content)
    /\ (blog_resp'.op = "delete_post" /\ ~Refused403) =>
          \A tok \in BlogTokens, p \in blog_db.posts :
              \/ OwnerOrNobody(tok, p.author_id)
              \/ ~BlogDeletePost(tok, p.id)
    /\ (blog_resp'.op = "delete_comment" /\ ~Refused403) =>
          \A tok \in BlogTokens, c \in blog_db.comments :
              \/ OwnerOrNobody(tok, c.author_id)
              \/ ~BlogDeleteComment(tok, c.id)

\* C8: update_post, delete_post and delete_comment by an authenticated user
\* who is not the author of the existing post or comment answer 403 and
\* leave the tables and the tokens as they were; a request of these three
\* that changes the tables comes from the author of the post or comment it
\* names.
C8_OwnershipEnforced == [][OwnershipRespected]_vars

\* the update of a post was refused with 403 while every post was alice's
\* and carried a comment: the request was bob's, on a post of alice
C8_Witness ==
    /\ blog_resp.op = "update_post"
    /\ blog_resp.status = 403
    /\ blog_db.posts # {}
    /\ \A p \in blog_db.posts :
          /\ p.author_id = 1
          /\ \E c \in blog_db.comments : c.post_id = p.id

\* ---------------------------------------------------------------- C9
NoOrphanedComment ==
    \A c \in blog_db.comments : \E p \in blog_db.posts : p.id = c.post_id

\* a deleted post takes exactly its comments with it
DeleteCascades ==
    (blog_resp'.op = "delete_post" /\ blog_resp'.status = 204) =>
        \A tok \in BlogTokens, p \in blog_db.posts :
            BlogDeletePost(tok, p.id) =>
                /\ blog_db'.posts = blog_db.posts \ {p}
                /\ blog_db'.comments = {c \in blog_db.comments : c.post_id # p.id}

\* a comment on a post that does not exist is refused and nothing is stored
CommentNeedsPost ==
    blog_resp'.op = "create_comment" =>
        \A tok \in BlogTokens, id \in PostIds, x \in Texts :
            ((\A p \in blog_db.posts : p.id # id) /\ BlogCreateComment(tok, id, x)) =>
                /\ blog_db' = blog_db
                /\ get_current_user(tok) # NoUser => blog_resp'.status = 404

\* C9: every stored comment references a stored post; a successful
\* delete_post removes the post and every comment that references it (and no
\* other comment); create_comment on a post id that is not stored answers 404
\* and stores nothing.
C9_NoOrphanedComments ==
    /\ []NoOrphanedComment
    /\ [][DeleteCascades /\ CommentNeedsPost]_vars

\* a post with two comments was deleted: both comments went with it
C9_Witness ==
    /\ blog_resp.op = "delete_post"
    /\ blog_resp.status = 204
    /\ blog_resp.removed = 2
    /\ blog_db.comments = {}

\* ---------------------------------------------------------------- C10
UniqueKeys ==
    /\ \A a, b \in blog_db.users : a.username = b.username => a = b
    /\ \A a, b \in svc_users : a.email = b.email => a = b

\* registering a key that is taken answers 400 and changes no user
DuplicateRegisterRefused ==
    /\ blog_resp'.op = "register" =>
          \/ blog_resp'.status = 400 /\ blog_db' = blog_db
          \/ \A u \in Usernames, e \in Emails, pw \in Passwords :
                 ~(/\ \E x \in blog_db.users : x.username = u
                   /\ BlogRegister(u, e, pw))
    /\ svc_resp'.op = "register" =>
          \/ svc_resp'.status = 400 /\ svc_users' = svc_users
          \/ \A e \in Emails, u \in Usernames, pw \in Passwords :
                 ~(/\ validate_password(pw)
                   /\ \E x \in svc_users : x.email = e
                   /\ SvcRegister(e, u, pw))

\* changing the email to one another user holds answers 400 and changes no user
DuplicateEmailUpdateRefused ==
    svc_resp'.op = "update_user_me" =>
        \/ svc_resp'.status = 400 /\ svc_users' = svc_users
        \/ \A tok \in SvcTokens, u \in Usernames \cup {None}, e \in Emails :
               ~(/\ svc_get_current_user(tok) # NoUser
                 /\ \E x \in svc_users : x.email = e /\ x # svc_get_current_user(tok)
                 /\ SvcUpdateUserMe(tok, u, e))

\* C10: no two users of the blog share a username and no two users of the
\* user service share an email; a (well-formed) registration of a key that is
\* taken answers 400, a change of email to one that another user holds
\* answers 400, and both leave the stored users as they were.
C10_IdentityUniqueness ==
    /\ []UniqueKeys
    /\ [][DuplicateRegisterRefused /\ DuplicateEmailUpdateRefused]_vars

\* the blog refused a second registration of a username, and the user
\* service, holding two users, refused a change of email to the other's
C10_Witness ==
    /\ blog_resp.op = "register"
    /\ blog_resp.status = 400
    /\ blog_resp.detail = "Username already registered"
    /\ svc_resp.op = "update_user_me"
    /\ svc_resp.status = 400
    /\ Cardinality(svc_users) = 2

\* ---------------------------------------------------------------- C11
\* the session holds no row that waits for a commit
SessionClean == blog_db.pending = {}

UsernameFree(u) == \A x \in blog_db.users : x.username # u
EmailFree(e) == \A x \in blog_db.users : x.email # e

\* a registration with a free username and a taken email is answered with an
\* error, leaves the tables and the session as they were, and its user
\* neither exists nor can log in
ViolationRolledBack ==
    blog_resp'.op = "register" =>
        \A u \in Usernames, e \in Emails, pw \in Passwords :
            (UsernameFree(u) /\ ~EmailFree(e) /\ BlogRegister(u, e, pw)) =>
                /\ blog_resp'.status >= 400
                /\ blog_db' = blog_db
                /\ \A x \in blog_db'.users : x.username # u
                /\ \A pw2 \in Passwords : ~login(blog_db', u, pw2)

\* a registration with a free username and a free email is accepted, whatever
\* came before it
ValidRegistrationAccepted ==
    blog_resp'.op = "register" =>
        \A u \in Usernames, e \in Emails, pw \in Passwords :
            (UsernameFree(u) /\ EmailFree(e) /\ BlogRegister(u, e, pw)) =>
                /\ blog_resp'.status = 200
                /\ \E x \in blog_db'.users : x.username = u /\ x.email = e
                /\ login(blog_db', u, pw)

\* C11: a registration that passes the username check and breaks the
\* uniqueness of the email in the store is answered with an error status and
\* leaves the store exactly as it was (its user does not exist and cannot log
\* in); the session keeps no trace of it, and a valid registration that
\* follows is accepted.
C11_RollbackOnConstraintViolation ==
    /\ []SessionClean
    /\ [][ViolationRolledBack /\ ValidRegistrationAccepted]_vars

\* a registration was accepted after another had been rolled back
C11_Witness ==
    /\ blog_resp.op = "register"
    /\ blog_resp.status = 200
    /\ blog_resp.rolled_back
    /\ Cardinality(blog_db.users) = 2

\* ---------------------------------------------------------------- C12
\* the key of a register request: the username in the blog, the email in the
\* user service
RaceKey(q) == IF local[q].svc = "blog" THEN local[q].username ELSE local[q].email

\* the stored users of a service that hold a key
Holders(svc, key) ==
    IF svc = "blog"
    THEN {x \in blog_db.users : x.username = key}
    ELSE {x \in svc_users : x.email = key}

\* the finished requests that passed the lookup with the key of p: all of
\* them passed it before any of them committed
Racers(p) ==
    {q \in Tasks : /\ pc[q] = "done"
                   /\ local[q].passed
                   /\ local[q].svc = local[p].svc
                   /\ RaceKey(q) = RaceKey(p)}

\* no racer breaks another constraint: its email is not held under another
\* username in the blog
OtherwiseValid(p) ==
    local[p].svc = "blog" =>
        \A q \in Racers(p), x \in blog_db.users :
            x.email = local[q].email => x.username = RaceKey(p)

\* the stored row is the one the request asked for
RowIntact(q) ==
    \E x \in Holders(local[q].svc, RaceKey(q)) :
        /\ x.username = local[q].username
        /\ x.email = local[q].email
        /\ x.hashed_password = get_password_hash(local[q].password)

\* among the requests that raced for one key, one has won and its row is
\* stored intact, every other one was answered 400, and one user holds the key
RaceSettled(svc) ==
    \A p \in Tasks :
        (/\ pc[p] = "done"
         /\ local[p].svc = svc
         /\ local[p].passed
         /\ Cardinality(Racers(p)) >= 2
         /\ OtherwiseValid(p)) =>
            /\ Cardinality(Holders(svc, RaceKey(p))) = 1
            /\ \E w \in Racers(p) :
                  /\ local[w].status \in {200, 201}
                  /\ RowIntact(w)
                  /\ \A q \in Racers(p) \ {w} : local[q].status = 400

\* the blog settles the race: the loser's commit raises IntegrityError, which
\* register catches and answers with 400
BlogRaceSettled == RaceSettled("blog")

\* C12: when register requests with the same key (email in the user
\* service, username in the blog) have all passed the lookup before any of
\* them commits, one user with that key is stored, the row of the winner is
\* intact, and exactly the losers are answered 400.
C12_ConcurrentDuplicateRegistration ==
    RaceSettled("blog") /\ RaceSettled("users")

\* ---------------------------------------------------------------- C13
\* the token a login issues resolves to the user who logged in
TokenIssuedToItsUser ==
    /\ \A e \in Emails, pw \in Passwords :
          (SvcLogin(e, pw) /\ svc_resp'.status = 200) =>
              /\ e \in svc_tokens'
              /\ svc_get_current_user(e)' = First({x \in svc_users : x.email = e})
    /\ \A u \in Usernames, pw \in Passwords :
          (BlogLogin(u, pw) /\ blog_resp'.status = 200) =>
              /\ u \in blog_tokens'
              /\ get_current_user(u)' = First({x \in blog_db.users : x.username = u})

\* a token that has been issued goes on resolving to the same user
TokenKeepsItsUser ==
    /\ \A tok \in svc_tokens :
          svc_get_current_user(tok)'.id = svc_get_current_user(tok).id
    /\ \A tok \in blog_tokens :
          get_current_user(tok)'.id = get_current_user(tok).id

\* C13: the token a successful login issues resolves to the user who logged
\* in, and after any register, login or profile update it still resolves to
\* that user and to no other (tokens do not expire within a behaviour).
C13_TokenSubjectStable == [][TokenIssuedToItsUser /\ TokenKeepsItsUser]_vars

\* ---------------------------------------------------------------- C14
ProtectedOps ==
    {"create_post", "update_post", "delete_post", "create_comment", "delete_comment"}

\* a request to a protected route without a valid token is answered 401 and
\* changes nothing; 403 is only answered to a request with a valid token
TokenResolvedFirst ==
    blog_resp'.op \in ProtectedOps =>
        /\ ~blog_resp'.authenticated =>
              /\ blog_resp'.status = 401
              /\ blog_db' = blog_db
              /\ blog_tokens' = blog_tokens
        /\ blog_resp'.authenticated => blog_resp'.status # 401

\* a step of a protected route that changes the tables has passed every
\* guard: it carried a valid token and is answered with a success status
EffectOnlyAfterGuards ==
    (blog_resp'.op \in ProtectedOps /\ blog_db' # blog_db) =>
        /\ blog_resp'.authenticated
        /\ blog_resp'.status \in {200, 201, 204}

\* C14: create_post, update_post, delete_post, create_comment and
\* delete_comment with a missing or invalid token answer 401 and change no
\* post or comment; the token is resolved before the ownership check and
\* the ownership check precedes the write, so the tables change only in a
\* step that passed every guard and answers with success.
C14_GuardOrdering == [][TokenResolvedFirst /\ EffectOnlyAfterGuards]_vars

\* a delete_post without a valid token was answered 401 while a post with a
\* comment was stored
C14_Witness ==
    /\ blog_resp.op = "delete_post"
    /\ blog_resp.status = 401
    /\ ~blog_resp.authenticated
    /\ \E p \in blog_db.posts : \E c \in blog_db.comments : c.post_id = p.id

\* ---------------------------------------------------------------- C15
\* get_stats changes nothing and reports the counters and the number of
\* stored entries, expired or not
StatsIsSnapshot ==
    IsCall("get_stats") =>
        /\ weather_cache' = weather_cache
        /\ last_call'.ret.cache_hits = weather_cache.hits
        /\ last_call'.ret.cache_misses = weather_cache.misses
        /\ last_call'.ret.cached_items_count = Cardinality(DOMAIN weather_cache.store)

\* a key leaves the store only by a get after its expiry or by clear: not
\* by the passing of time, not by get_stats, not by set
EntryLeavesOnlyByGetOrClear ==
    \A k \in DOMAIN weather_cache.store :
        k \notin DOMAIN weather_cache'.store =>
            \/ IsCall("clear")
            \/ IsCall("get") /\ last_call'.key = k /\ ~Live(k)

\* C15: get_stats changes neither the stored entries nor the hit and miss
\* counters; the size it reports is the number of entries stored, which
\* counts the expired entries that no get has read since they expired; an
\* entry leaves the store only by a get after its expiry or by clear.
C15_StatsReadOnlySnapshot == [][StatsIsSnapshot /\ EntryLeavesOnlyByGetOrClear]_vars

\* get_stats reported two entries when both had expired and were still stored
C15_Witness ==
    /\ last_call.op = "get_stats"
    /\ last_call.ret.cached_items_count = 2
    /\ Cardinality(DOMAIN weather_cache.store) = 2
    /\ \A k \in DOMAIN weather_cache.store : now > weather_cache.store[k].expiry

====
